---- MODULE Spec2Model ----
(***************************************************************************)
(* Model of library/doctable_to_facts.py: the Ansible module that reads    *)
(* the tables of a .docx document and returns the rows of the tables whose *)
(* header row holds the wanted headers as a list of dictionaries.          *)
(*                                                                         *)
(* One run of main() is modelled, statement by statement where the loops   *)
(* of parse_tables_dict are concerned.  The document that docx.Document    *)
(* returns, the arguments the playbook passes and the outcome of opening   *)
(* the file are the environment's choices.                                 *)
(***************************************************************************)
EXTENDS Integers, Sequences, FiniteSets, TLC

VARIABLES
    pc,        \* position of the run in main / parse_tables_dict
    HAS_LIB,   \* module-level flag set by the import probe
    params,    \* module.params, None until AnsibleModule(...) has parsed them
    result,    \* main's result dict
    ret,       \* (ret_code, response) returned by parse_tables_dict, None before
    outcomes,  \* what the process reported: fail_json / exit_json calls, tracebacks
    doc,       \* the opened document (its tables), None before docx.Document returned
    keys,      \* parse_tables_dict's local keys
    ti,        \* index of the table the outer loop is at (1-based)
    ri,        \* index of the row the inner loop is at (1-based: row 0 is ri = 1)
    tables,    \* parse_tables_dict's local dict tables
    presult    \* parse_tables_dict's local dict result

vars == <<pc, HAS_LIB, params, result, ret, outcomes, doc, keys, ti, ri, tables, presult>>

-----------------------------------------------------------------------------
(* Bounds of the model.                                                     *)

MaxTables == 3
MaxRows == 3
MaxCells == 2
MaxDocCells == 4

(* Cell texts: they serve as header names and as cell values.               *)
Texts == {"A", "B"}

(* The values the playbook may pass.                                         *)
SrcPaths == {"report.docx"}
Names == {"routes", "zones"}
HeaderLists == {<<>>, <<"A">>, <<"B">>, <<"A", "B">>, <<"B", "A">>, <<"A", "A">>}

-----------------------------------------------------------------------------
(* Python values.                                                           *)

None == <<>>
Some(x) == <<x>>
EmptyDict == <<>>

Min(a, b) == IF a <= b THEN a ELSE b

Range(s) == {s[i] : i \in DOMAIN s}

(* The documents docx.Document may return: up to MaxTables tables of up to  *)
(* MaxRows rows of 1..MaxCells cells, MaxDocCells cells at most in all.     *)
RowsUpTo(n) == UNION {[1..k -> Texts] : k \in 1..n}

RECURSIVE TablesOf(_, _)
TablesOf(r, b) ==
    IF r = 0 \/ b = 0 THEN {<<>>}
    ELSE {<<>>} \cup UNION {{<<row>> \o t : t \in TablesOf(r - 1, b - Len(row))} :
                             row \in RowsUpTo(Min(MaxCells, b))}

RECURSIVE CellCount(_)
CellCount(t) == IF t = <<>> THEN 0 ELSE Len(Head(t)) + CellCount(Tail(t))

RECURSIVE DocsOf(_, _)
DocsOf(n, b) ==
    IF n = 0 THEN {<<>>}
    ELSE {<<>>} \cup UNION {{<<t>> \o d : d \in DocsOf(n - 1, b - CellCount(t))} :
                             t \in TablesOf(MaxRows, b)}

Docs == DocsOf(MaxTables, MaxDocCells)

-----------------------------------------------------------------------------
(* The expressions of parse_tables_dict.                                    *)

(* 'table_' + table_name *)
AnsibleTableName(table_name) == "table_" \o table_name

(* Variants of the subset test: equality of the two sets; a test that      *)
(* takes an empty list of headers to select nothing.                        *)
IsSubset_Equal(headers, ks) == Range(headers) = Range(ks)

IsSubset_NonEmpty(headers, ks) ==
    headers # <<>> /\ Range(headers) \subseteq Range(ks)

(* set(headers).issubset(keys) *)
IsSubset(headers, ks) == Range(headers) \subseteq Range(ks)

(* Variant of zip: itertools.zip_longest with fillvalue '' *)
Zip_Longest(ks, text) ==
    [i \in 1..(IF Len(ks) >= Len(text) THEN Len(ks) ELSE Len(text)) |->
        <<IF i <= Len(ks) THEN ks[i] ELSE "", IF i <= Len(text) THEN text[i] ELSE "">>]

(* zip(keys, text): pairs up to the shorter of the two *)
Zip(ks, text) == [i \in 1..Min(Len(ks), Len(text)) |-> <<ks[i], text[i]>>]

(* Variant of dict: the first pair of a key keeps its value *)
RECURSIVE Dict_FirstWins(_)
Dict_FirstWins(pairs) ==
    IF pairs = <<>> THEN EmptyDict
    ELSE LET d == Dict_FirstWins(SubSeq(pairs, 1, Len(pairs) - 1))
             p == pairs[Len(pairs)]
         IN  [k \in (DOMAIN d) \cup {p[1]} |-> IF k \in DOMAIN d THEN d[k] ELSE p[2]]

(* dict(pairs): the pairs are inserted left to right, a later pair         *)
(* replaces the value an earlier pair gave the same key                     *)
RECURSIVE Dict(_)
Dict(pairs) ==
    IF pairs = <<>> THEN EmptyDict
    ELSE LET d == Dict(SubSeq(pairs, 1, Len(pairs) - 1))
             p == pairs[Len(pairs)]
         IN  [k \in (DOMAIN d) \cup {p[1]} |-> IF k = p[1] THEN p[2] ELSE d[k]]

(* tables[ansible_table_name].append(row_data) *)
AppendTo(tbls, key, row_data) == [tbls EXCEPT ![key] = Append(@, row_data)]

-----------------------------------------------------------------------------
(* The framework calls: both report once and end the process.               *)

FailJson(kwargs) ==
    /\ outcomes' = Append(outcomes, [kind |-> "fail_json", kwargs |-> kwargs])
    /\ pc' = "exited"

ExitJson(kwargs) ==
    /\ outcomes' = Append(outcomes, [kind |-> "exit_json", kwargs |-> kwargs])
    /\ pc' = "exited"

(* An exception nobody catches: the interpreter prints the traceback and    *)
(* the process ends without a result envelope.                              *)
Uncaught(exc) ==
    /\ outcomes' = Append(outcomes, [kind |-> "traceback", kwargs |-> [exception |-> exc]])
    /\ pc' = "exited"

-----------------------------------------------------------------------------
Init ==
    /\ pc = "main"
    /\ HAS_LIB \in BOOLEAN
    /\ params = None
    /\ result = EmptyDict
    /\ ret = None
    /\ outcomes = <<>>
    /\ doc = None
    /\ keys = None
    /\ ti = 0
    /\ ri = 0
    /\ tables = EmptyDict
    /\ presult = EmptyDict

(* main, lines 114-129: the result dict, then AnsibleModule(argument_spec)  *)
(* parses the arguments; all three are required, a missing one ends the     *)
(* run inside the constructor.                                              *)
NewModuleOk ==
    /\ pc = "main"
    /\ result' = [changed |-> FALSE, facts_json |-> "", message |-> ""]
    /\ \E s \in SrcPaths, n \in Names, h \in HeaderLists :
          params' = Some([src |-> s, name |-> n, headers |-> h])
    /\ pc' = "check_lib"
    /\ UNCHANGED <<HAS_LIB, ret, outcomes, doc, keys, ti, ri, tables, presult>>

NewModuleMissingArg ==
    /\ pc = "main"
    /\ result' = [changed |-> FALSE, facts_json |-> "", message |-> ""]
    /\ FailJson([msg |-> "missing required arguments"])
    /\ UNCHANGED <<HAS_LIB, params, ret, doc, keys, ti, ri, tables, presult>>

(* Variant of lines 130-131: the flag is not consulted *)
CheckLib_Skipped ==
    /\ pc = "check_lib"
    /\ pc' = "call_parse"
    /\ UNCHANGED <<HAS_LIB, params, result, ret, outcomes, doc, keys, ti, ri, tables, presult>>

(* main, lines 130-131 *)
CheckLib ==
    /\ pc = "check_lib"
    /\ IF ~HAS_LIB
          THEN FailJson([msg |-> "Missing required library: python-docx"])
          ELSE /\ pc' = "call_parse"
               /\ UNCHANGED outcomes
    /\ UNCHANGED <<HAS_LIB, params, result, ret, doc, keys, ti, ri, tables, presult>>

(* parse_tables_dict, lines 85-89, entered from line 133 *)
ParseEnter ==
    /\ pc = "call_parse"
    /\ presult' = [ansible_facts |-> EmptyDict]
    /\ tables' = [k \in {AnsibleTableName(params[1].name)} |-> <<>>]
    /\ pc' = "open"
    /\ UNCHANGED <<HAS_LIB, params, result, ret, outcomes, doc, keys, ti, ri>>

(* lines 91-92, 96-97: docx.Document returned a document *)
OpenOk ==
    /\ pc = "open"
    /\ \E d \in Docs : doc' = Some(d)
    /\ keys' = None
    /\ ti' = 1
    /\ pc' = "for_table"
    /\ UNCHANGED <<HAS_LIB, params, result, ret, outcomes, ri, tables, presult>>

(* lines 91-94: docx.Document raised IOError *)
OpenIOError ==
    /\ pc = "open"
    /\ ret' = <<1, "IOError on input file: " \o params[1].src>>
    /\ pc' = "returned"
    /\ UNCHANGED <<HAS_LIB, params, result, outcomes, doc, keys, ti, ri, tables, presult>>

(* lines 91-93: docx.Document raised an exception that is no IOError       *)
(* (python-docx raises PackageNotFoundError for a path that is no package); *)
(* the except clause does not match and nothing up the stack catches it.    *)
OpenOtherError ==
    /\ pc = "open"
    /\ Uncaught("PackageNotFoundError")
    /\ UNCHANGED <<HAS_LIB, params, result, ret, doc, keys, ti, ri, tables, presult>>

(* line 97: the outer loop takes the next table *)
ForTable ==
    /\ pc = "for_table"
    /\ ti <= Len(doc[1])
    /\ ri' = 1
    /\ pc' = "for_row"
    /\ UNCHANGED <<HAS_LIB, params, result, ret, outcomes, doc, keys, ti, tables, presult>>

(* Variant of lines 101-103 without the continue: row 0 falls through to   *)
(* the subset test; its generator is spent, so the record is empty.         *)
HeaderRow_NoContinue ==
    /\ pc = "for_row"
    /\ ri = 1
    /\ ri <= Len(doc[1][ti])
    /\ keys' = Some(doc[1][ti][ri])
    /\ IF Range(params[1].headers) \subseteq Range(doc[1][ti][ri])
          THEN tables' = [tables EXCEPT !["table_" \o params[1].name] = Append(@, EmptyDict)]
          ELSE UNCHANGED tables
    /\ ri' = ri + 1
    /\ UNCHANGED <<pc, HAS_LIB, params, result, ret, outcomes, doc, ti, presult>>

(* Variant of lines 101-102: keys is taken from the first table only *)
HeaderRow_KeepFirst ==
    /\ pc = "for_row"
    /\ ri = 1
    /\ ri <= Len(doc[1][ti])
    /\ keys' = IF keys = None THEN Some(doc[1][ti][ri]) ELSE keys
    /\ ri' = ri + 1
    /\ UNCHANGED <<pc, HAS_LIB, params, result, ret, outcomes, doc, ti, tables, presult>>

(* lines 98-103: row 0 of the table *)
HeaderRow ==
    /\ pc = "for_row"
    /\ ri = 1
    /\ ri <= Len(doc[1][ti])
    /\ keys' = Some(doc[1][ti][ri])
    /\ ri' = ri + 1
    /\ UNCHANGED <<pc, HAS_LIB, params, result, ret, outcomes, doc, ti, tables, presult>>

(* Variant of lines 105-107: a header row that fails the test ends the scan *)
DataRow_StopOnMismatch ==
    /\ pc = "for_row"
    /\ ri > 1
    /\ ri <= Len(doc[1][ti])
    /\ keys # None
    /\ IF Range(params[1].headers) \subseteq Range(keys[1])
          THEN /\ tables' = [tables EXCEPT !["table_" \o params[1].name] =
                                Append(@, Dict(Zip(keys[1], doc[1][ti][ri])))]
               /\ ri' = ri + 1
               /\ UNCHANGED <<pc, ti>>
          ELSE /\ ti' = Len(doc[1]) + 1
               /\ pc' = "for_table"
               /\ UNCHANGED <<ri, tables>>
    /\ UNCHANGED <<HAS_LIB, params, result, ret, outcomes, doc, keys, presult>>

(* lines 98-99, 105-107: a row after row 0 *)
DataRow ==
    /\ pc = "for_row"
    /\ ri > 1
    /\ ri <= Len(doc[1][ti])
    /\ LET text == doc[1][ti][ri]
       IN  IF keys = None
              THEN \* set.issubset(None): TypeError
                   /\ Uncaught("TypeError")
                   /\ UNCHANGED <<ri, tables>>
              ELSE /\ IF IsSubset(params[1].headers, keys[1])
                         THEN tables' = AppendTo(tables, AnsibleTableName(params[1].name),
                                                 Dict(Zip(keys[1], text)))
                         ELSE UNCHANGED tables
                   /\ ri' = ri + 1
                   /\ UNCHANGED <<pc, outcomes>>
    /\ UNCHANGED <<HAS_LIB, params, result, ret, doc, keys, ti, presult>>

(* line 98: the rows of the table are exhausted, back to line 97 *)
EndRows ==
    /\ pc = "for_row"
    /\ ri > Len(doc[1][ti])
    /\ ti' = ti + 1
    /\ pc' = "for_table"
    /\ UNCHANGED <<HAS_LIB, params, result, ret, outcomes, doc, keys, ri, tables, presult>>

(* lines 109-111: the tables are exhausted *)
ParseReturn ==
    /\ pc = "for_table"
    /\ ti > Len(doc[1])
    /\ presult' = [presult EXCEPT !.ansible_facts = tables]
    /\ ret' = <<0, presult'>>
    /\ pc' = "returned"
    /\ UNCHANGED <<HAS_LIB, params, result, outcomes, doc, keys, ti, ri, tables>>

(* Variant of lines 135-137: the response is not copied into the message *)
MainFail_NoMessage ==
    /\ pc = "returned"
    /\ ret[1] = 1
    /\ UNCHANGED result
    /\ FailJson(result)
    /\ UNCHANGED <<HAS_LIB, params, ret, doc, keys, ti, ri, tables, presult>>

(* main, lines 135-137 *)
MainFail ==
    /\ pc = "returned"
    /\ ret[1] = 1
    /\ result' = [result EXCEPT !.message = ret[2]]
    /\ FailJson(result')
    /\ UNCHANGED <<HAS_LIB, params, ret, doc, keys, ti, ri, tables, presult>>

(* main, lines 138-142 *)
MainDone ==
    /\ pc = "returned"
    /\ ret[1] # 1
    /\ result' = [result EXCEPT !.facts_json = ret[2], !.message = "Done"]
    /\ ExitJson(result')
    /\ UNCHANGED <<HAS_LIB, params, ret, doc, keys, ti, ri, tables, presult>>

Next ==
    \/ NewModuleOk
    \/ NewModuleMissingArg
    \/ CheckLib
    \/ ParseEnter
    \/ OpenOk
    \/ OpenIOError
    \/ OpenOtherError
    \/ ForTable
    \/ HeaderRow
    \/ DataRow
    \/ EndRows
    \/ ParseReturn
    \/ MainFail
    \/ MainDone

Spec == Init /\ [][Next]_vars

-----------------------------------------------------------------------------
(* What the properties below speak of, stated from the document and the     *)
(* arguments alone (none of it reads keys or uses the operators of the      *)
(* code above).                                                             *)

TheDoc == doc[1]
TheHeaders == params[1].headers
TheKey == "table_" \o params[1].name
RecordsOut == tables[TheKey]
Scanning == pc \in {"for_table", "for_row"}
Succeeded == pc \in {"returned", "exited"} /\ ret # None /\ ret[1] = 0

(* every string of hs is the text of some cell of row 0 of T *)
HeaderRowHolds(hs, T) ==
    /\ Len(T) >= 1
    /\ \A j \in 1..Len(hs) : \E i \in 1..Len(T[1]) : T[1][i] = hs[j]

(* the columns of row that have a header cell above them *)
Paired(hdr, row) == {i \in 1..Len(hdr) : i <= Len(row)}

(* the record of a data row: each header text that has a cell below it,    *)
(* with the cell of the last column carrying that text                      *)
RecordOf(hdr, row) ==
    [k \in {hdr[i] : i \in Paired(hdr, row)} |->
        row[CHOOSE i \in Paired(hdr, row) :
                /\ hdr[i] = k
                /\ \A j \in Paired(hdr, row) : hdr[j] = k => j <= i]]

RecordsOfTable(hs, T) ==
    IF HeaderRowHolds(hs, T)
       THEN [r \in 1..(Len(T) - 1) |-> RecordOf(T[1], T[r + 1])]
       ELSE <<>>

RECURSIVE RecordsOfDoc(_, _)
RecordsOfDoc(hs, d) ==
    IF d = <<>> THEN <<>>
    ELSE RecordsOfDoc(hs, SubSeq(d, 1, Len(d) - 1)) \o RecordsOfTable(hs, d[Len(d)])

(* data rows of the first n tables of d that lie in tables whose header    *)
(* row holds hs *)
RECURSIVE DataRowsOfMatching(_, _, _)
DataRowsOfMatching(hs, d, n) ==
    IF n = 0 THEN 0
    ELSE DataRowsOfMatching(hs, d, n - 1)
         + (IF HeaderRowHolds(hs, d[n]) THEN Len(d[n]) - 1 ELSE 0)

(* data rows (rows of index >= 1) of the first n tables of d *)
RECURSIVE DataRows(_, _)
DataRows(d, n) ==
    IF n = 0 THEN 0
    ELSE DataRows(d, n - 1) + (IF Len(d[n]) >= 1 THEN Len(d[n]) - 1 ELSE 0)

NoTraceback == \A i \in DOMAIN outcomes : outcomes[i].kind # "traceback"

-----------------------------------------------------------------------------
(* C1: a step of the row loop puts a record into the output list if and    *)
(* only if the row is a row after row 0 and every string of headers is the *)
(* text of some cell of row 0 of the table being scanned (a set            *)
(* comparison: a header row with more texts still matches, a header row    *)
(* lacking one of them does not); the record put is the record of that     *)
(* row, and no other step of the scan changes the list.                    *)
C1_SelectedIffHeaderSubset ==
    [][Scanning =>
         IF pc = "for_row" /\ ri <= Len(TheDoc[ti])
            THEN LET T == TheDoc[ti]
                 IN  IF ri > 1 /\ HeaderRowHolds(TheHeaders, T)
                        THEN tables'[TheKey] = Append(RecordsOut, RecordOf(T[1], T[ri]))
                        ELSE tables'[TheKey] = RecordsOut
            ELSE tables'[TheKey] = RecordsOut]_vars

(* a table whose header row is a strict superset of headers has given its  *)
(* data row to the output, in a document whose other tables have a header  *)
(* row that lacks a wanted header                                           *)
C1_Witness ==
    /\ Succeeded
    /\ TheHeaders # <<>>
    /\ Len(TheDoc) >= 2
    /\ \E t \in 1..Len(TheDoc) :
          /\ Len(TheDoc[t]) = 2
          /\ Range(TheHeaders) \subseteq Range(TheDoc[t][1])
          /\ Range(TheHeaders) # Range(TheDoc[t][1])
          /\ \A u \in 1..Len(TheDoc) :
                u # t => /\ Len(TheDoc[u]) >= 1
                         /\ ~(Range(TheHeaders) \subseteq Range(TheDoc[u][1]))
    /\ Len(RecordsOut) = 1

(* C2: row 0 of a table never becomes a record, whether or not the table   *)
(* matches, and a table whose header row matches contributes one record    *)
(* per row after row 0: when the row loop is about to take row ri of table *)
(* ti (ri counts from 1, row 0 is ri = 1), the output holds the records of *)
(* the earlier tables plus, if this table matches, one record per data row *)
(* already taken (ri - 2) and none otherwise; none at or just past row 0;  *)
(* at the end of a matching table that is its row count minus 1.           *)
C2_HeaderRowSkippedAndRowCount ==
    pc = "for_row" =>
        LET T == TheDoc[ti]
            before == DataRowsOfMatching(TheHeaders, TheDoc, ti - 1)
        IN  /\ ri <= 2 => Len(RecordsOut) = before
            /\ ri > 2 /\ HeaderRowHolds(TheHeaders, T) => Len(RecordsOut) = before + (ri - 2)
            /\ ri > 2 /\ ~HeaderRowHolds(TheHeaders, T) => Len(RecordsOut) = before
            /\ ri > Len(T) /\ Len(T) >= 1 /\ HeaderRowHolds(TheHeaders, T)
                  => Len(RecordsOut) = before + (Len(T) - 1)

(* the rows of a table whose header row equals headers are exhausted and   *)
(* both of its data rows are in the output                                  *)
C2_Witness ==
    /\ pc = "for_row"
    /\ TheHeaders # <<>>
    /\ Len(TheDoc[ti]) >= 3
    /\ ri > Len(TheDoc[ti])
    /\ TheDoc[ti][1] = TheHeaders
    /\ Len(RecordsOut) = Len(TheDoc[ti]) - 1

(* C3: the record of a data row of a matching table pairs the header text  *)
(* of column i with the row's cell i only for the columns both have: its   *)
(* keys are exactly the header texts of those columns, each value is the   *)
(* cell of such a column, nothing is padded and no cell past the header    *)
(* row shows; no exception is raised once the document is open.            *)
C3_PairingTruncated ==
    /\ doc # None => NoTraceback
    /\ pc = "for_row" /\ ri > 2 /\ HeaderRowHolds(TheHeaders, TheDoc[ti]) =>
          LET hdr == TheDoc[ti][1]
              row == TheDoc[ti][ri - 1]
              m == IF Len(hdr) <= Len(row) THEN Len(hdr) ELSE Len(row)
              r == RecordsOut[Len(RecordsOut)]
          IN  /\ DOMAIN r = {hdr[i] : i \in 1..m}
              /\ \A k \in DOMAIN r : \E i \in 1..m : hdr[i] = k /\ r[k] = row[i]

(* a data row with fewer cells than the header row has become a record     *)
(* that lacks the header text it could not pair                             *)
C3_Witness ==
    /\ pc = "for_row"
    /\ ri > 2
    /\ HeaderRowHolds(TheHeaders, TheDoc[ti])
    /\ Len(TheDoc[ti][ri - 1]) < Len(TheDoc[ti][1])
    /\ RecordsOut # <<>>
    /\ \E i \in 1..Len(TheDoc[ti][1]) :
          TheDoc[ti][1][i] \notin DOMAIN RecordsOut[Len(RecordsOut)]

(* C4: when the header row of a matching table has the same text in two    *)
(* or more columns, the table is not rejected and the record of a data row *)
(* has, for that text, the cell of the last such column the row could pair.*)
C4_DuplicateHeaderLastWins ==
    pc = "for_row" /\ ri > 2 /\ HeaderRowHolds(TheHeaders, TheDoc[ti]) =>
        LET hdr == TheDoc[ti][1]
            row == TheDoc[ti][ri - 1]
        IN  \A i \in 1..Len(hdr), j \in 1..Len(hdr) :
                (i < j /\ hdr[i] = hdr[j] /\ i <= Len(row)) =>
                    /\ Len(RecordsOut) >= 1
                    /\ hdr[i] \in DOMAIN RecordsOut[Len(RecordsOut)]
                    /\ LET last == CHOOSE c \in 1..Len(hdr) :
                                      /\ hdr[c] = hdr[i] /\ c <= Len(row)
                                      /\ \A e \in 1..Len(hdr) :
                                            (hdr[e] = hdr[i] /\ e <= Len(row)) => e <= c
                       IN  RecordsOut[Len(RecordsOut)][hdr[i]] = row[last]

(* a header row with the same text twice, above a data row with two        *)
(* different cells: the record has the second cell                          *)
C4_Witness ==
    /\ pc = "for_row"
    /\ ri > 2
    /\ HeaderRowHolds(TheHeaders, TheDoc[ti])
    /\ Len(TheDoc[ti][1]) = 2
    /\ TheDoc[ti][1][1] = TheDoc[ti][1][2]
    /\ Len(TheDoc[ti][ri - 1]) = 2
    /\ TheDoc[ti][ri - 1][1] # TheDoc[ti][ri - 1][2]
    /\ RecordsOut # <<>>
    /\ RecordsOut[Len(RecordsOut)][TheDoc[ti][1][1]] = TheDoc[ti][ri - 1][2]

(* C5: with an empty headers list every table is selected: while the row   *)
(* loop is at row ri of table ti the output holds one record per row after *)
(* row 0 seen so far, and the list returned holds one per row after row 0  *)
(* of every table; tables with no row or only a header row add nothing,    *)
(* and no exception is raised.                                             *)
C5_EmptyHeadersSelectAll ==
    (params # None /\ doc # None /\ TheHeaders = <<>>) =>
        /\ NoTraceback
        /\ pc = "for_row" =>
              Len(RecordsOut) = DataRows(TheDoc, ti - 1) + (IF ri > 2 THEN ri - 2 ELSE 0)
        /\ pc = "for_table" => Len(RecordsOut) = DataRows(TheDoc, ti - 1)
        /\ Succeeded =>
              Len(ret[2].ansible_facts[TheKey]) = DataRows(TheDoc, Len(TheDoc))

(* empty headers, a document with a zero-row table, a header-only table    *)
(* and a table with a data row: the run returned that one record            *)
C5_Witness ==
    /\ Succeeded
    /\ TheHeaders = <<>>
    /\ \E t \in 1..Len(TheDoc) : Len(TheDoc[t]) = 0
    /\ \E t \in 1..Len(TheDoc) : Len(TheDoc[t]) = 1
    /\ \E t \in 1..Len(TheDoc) : Len(TheDoc[t]) >= 2
    /\ Len(ret[2].ansible_facts[TheKey]) = 1

(* C6: the scan ends only after the last table, and the list returned      *)
(* under the single key "table_" + name is the concatenation, in table     *)
(* order and then row order, of the records of all matching tables.        *)
C6_ConcatenationOfMatchingTables ==
    /\ (pc = "returned" /\ ret[1] = 0) => ti = Len(TheDoc) + 1
    /\ Succeeded =>
          /\ DOMAIN ret[2].ansible_facts = {TheKey}
          /\ ret[2].ansible_facts[TheKey] = RecordsOfDoc(TheHeaders, TheDoc)

(* a matching table with a data row, placed after a table with a data row  *)
(* whose header row does not match: its record was returned                 *)
C6_Witness ==
    /\ Succeeded
    /\ Len(TheDoc) >= 2
    /\ Len(TheDoc[1]) >= 2
    /\ ~HeaderRowHolds(TheHeaders, TheDoc[1])
    /\ Len(TheDoc[Len(TheDoc)]) >= 2
    /\ HeaderRowHolds(TheHeaders, TheDoc[Len(TheDoc)])
    /\ Len(ret[2].ansible_facts[TheKey]) >= 1

(* C7 as claimed: whenever opening the document failed, parse_tables_dict  *)
(* returned the error indicator with a message holding the input path, and *)
(* main reported the failure through fail_json with that message, an empty *)
(* facts_json and nothing else.                                            *)
C7_OpenFailureReportedWithPath ==
    (pc = "exited" /\ params # None /\ HAS_LIB /\ doc = None) =>
        /\ ret = <<1, "IOError on input file: " \o params[1].src>>
        /\ outcomes = <<[kind |-> "fail_json",
                         kwargs |-> [changed |-> FALSE, facts_json |-> "",
                                     message |-> "IOError on input file: " \o params[1].src]]>>

(* C8 as claimed: when the run fails with the missing-library message, no *)
(* parameter has been parsed or validated and parse_tables_dict has not    *)
(* been called.                                                            *)
C8_DependencyFailureBeforeParams ==
    (pc = "exited" /\ outcomes = <<[kind |-> "fail_json",
                                    kwargs |-> [msg |-> "Missing required library: python-docx"]]>>)
        => /\ params = None
           /\ ret = None /\ doc = None /\ tables = EmptyDict

(* C8, amended: without the library, parse_tables_dict is never entered    *)
(* and no document is opened; the run ends in one fail_json, which carries *)
(* the missing-library message exactly when AnsibleModule(...) had parsed  *)
(* and accepted the parameters before the flag was consulted, and the      *)
(* framework's argument error otherwise.                                   *)
C8_DependencyFailureAfterParamsBeforeParse ==
    ~HAS_LIB =>
        /\ pc \in {"main", "check_lib", "exited"}
        /\ ret = None /\ doc = None /\ tables = EmptyDict /\ presult = EmptyDict
        /\ pc = "exited" =>
              /\ Len(outcomes) = 1
              /\ outcomes[1].kind = "fail_json"
              /\ DOMAIN outcomes[1].kwargs = {"msg"}
              /\ (outcomes[1].kwargs.msg = "Missing required library: python-docx")
                    <=> params # None
              /\ params = None => outcomes[1].kwargs.msg = "missing required arguments"

(* the library is absent, the parameters were parsed, and the run ended    *)
(* with the missing-library message                                         *)
C8_Witness ==
    /\ ~HAS_LIB
    /\ pc = "exited"
    /\ params # None
    /\ params[1].headers = <<"A", "B">>
    /\ outcomes = <<[kind |-> "fail_json",
                     kwargs |-> [msg |-> "Missing required library: python-docx"]]>>

C10_KeysAreCurrentHeaderRow ==
    (pc = "for_row" /\ ri > 1 /\ ri <= Len(TheDoc[ti])) =>
        /\ keys # None
        /\ keys = <<TheDoc[ti][1]>>

(* the third table is at its data row, after a table with rows and         *)
(* another header row and a zero-row table in between                       *)
C10_Witness ==
    /\ pc = "for_row"
    /\ ti = 3
    /\ ri = 2
    /\ ri <= Len(TheDoc[ti])
    /\ Len(TheDoc[1]) >= 1
    /\ Len(TheDoc[2]) = 0
    /\ TheDoc[1][1] # TheDoc[3][1]
    /\ keys = <<TheDoc[3][1]>>

====
